---- MODULE Spec2Model ----
(***************************************************************************)
(* The serializers of backend/foodgram_backend/api/serializers.py and the  *)
(* migration recipes/migrations/0009_auto_20230827_1853.py as state        *)
(* machines over the tables they read and write.                           *)
(*                                                                         *)
(* Every database write is its own step: the code opens no transaction,    *)
(* so each save() is committed when it returns.                            *)
(***************************************************************************)
EXTENDS Integers, Sequences, FiniteSets, TLC

VARIABLES
    recipes,        \* table Recipe, in insertion (pk) order
    lines,          \* table RecipeIngredient, in insertion (pk) order
    req,            \* the recipe create request being handled
    author_null,    \* schema of recipes.models: Recipe.author accepts NULL
    unique_line,    \* schema of recipes.models: (recipe, ingredient) is unique
    users,          \* table CustomUser, in insertion (pk) order
    su,             \* the sign-up request being handled
    following,      \* the following relation: <<follower, followee>> pairs
    view,           \* the last representation rendered by a read serializer
    img,            \* the value handed to Base64ImageField and its outcome
    cart_users,     \* pks of the User rows, as the ShoppingCart table sees them
    cart_recipes,   \* pks of the Recipe rows, as the ShoppingCart table sees them
    carts           \* table ShoppingCart

recipeVars == <<recipes, lines, req, author_null, unique_line>>
signUpVars == <<users, su>>
readVars == <<following, view>>
imageVars == <<img>>
cartVars == <<cart_users, cart_recipes, carts>>
vars == <<recipeVars, signUpVars, readVars, imageVars, cartVars>>

(***************************************************************************)
(* Bounds and input domains                                                *)
(***************************************************************************)
MaxIngredients == 2     \* entries in one request's ingredients list
MaxRecipes == 1         \* rows the Recipe table may hold

UserIds == {"u1", "u2"}
NoUser == "None"
Amounts == {1}

\* Table Ingredient: immutable reference data.
Ingredient ==
    (1 :> [name |-> "salt", measurement_unit |-> "g"]) @@
    (2 :> [name |-> "milk", measurement_unit |-> "ml"])

\* The ids a client may send: those of the table and one that is in no row.
RequestIngredientIds == {1, 2, 3}

SeqsUpTo(S, n) == UNION {[1..m -> S] : m \in 0..n}

IngredientEntries == [id : RequestIngredientIds, amount : Amounts]

(***************************************************************************)
(* Recipe create: RecipeCreateSerializer                                   *)
(***************************************************************************)
NoResponse == [id |-> 0, author |-> NoUser, ingredients |-> <<>>]

NoRequest ==
    [pc |-> "idle", user |-> NoUser, author |-> NoUser,
     ingredients |-> <<>>, validated |-> <<>>, instance |-> 0, k |-> 0,
     raised |-> "", response |-> NoResponse,
     pre_recipes |-> <<>>, pre_lines |-> <<>>]

Finished == {"idle", "invalid", "failed", "done"}

\* The id declared as a plain integer field: any number passes.
AnyIngredientId(pk) == pk \in Int

\* id = PrimaryKeyRelatedField(queryset=Ingredient.objects.all()): the pk
\* must be that of a row of the table.
KnownIngredient(pk) == pk \in DOMAIN Ingredient

\* The nested field renames id to ingredient (source='ingredient').
IngredientData(entry) == [ingredient |-> entry.id, amount |-> entry.amount]

\* The response, or the error, has been sent: the request is over.
EndRequest ==
    /\ req.pc \in {"invalid", "failed", "done"}
    /\ req' = NoRequest
    /\ UNCHANGED <<recipes, lines, author_null, unique_line>>
    /\ UNCHANGED <<signUpVars, readVars, imageVars, cartVars>>

\* A client posts a payload; the view may hand the author to save().
Post(user, author, ingredients) ==
    /\ req.pc = "idle"
    /\ Len(recipes) < MaxRecipes
    /\ req' = [NoRequest EXCEPT !.pc = "received", !.user = user,
                                !.author = author,
                                !.ingredients = ingredients,
                                !.pre_recipes = recipes,
                                !.pre_lines = lines]
    /\ UNCHANGED <<recipes, lines, author_null, unique_line>>
    /\ UNCHANGED <<signUpVars, readVars, imageVars, cartVars>>

\* is_valid(): every entry of the list is run through the nested serializer.
IsValid ==
    /\ req.pc = "received"
    /\ IF \A i \in DOMAIN req.ingredients : KnownIngredient(req.ingredients[i].id)
       THEN req' = [req EXCEPT !.pc = "valid",
                      !.validated = [i \in DOMAIN req.ingredients |->
                                        IngredientData(req.ingredients[i])]]
       ELSE req' = [req EXCEPT !.pc = "invalid"]
    /\ UNCHANGED <<recipes, lines, author_null, unique_line>>
    /\ UNCHANGED <<signUpVars, readVars, imageVars, cartVars>>

\* The row super().create(validated_data) inserts: validated_data holds the
\* declared fields and what save() was given; request.user is not in it.
RecipeRow(id, validated_author) == [id |-> id, author |-> validated_author]

\* instance = super().create(validated_data)
CreateRecipe(db_ok) ==
    /\ req.pc = "valid"
    /\ IF req.author = NoUser /\ ~author_null
       THEN /\ req' = [req EXCEPT !.pc = "failed", !.raised = "IntegrityError"]
            /\ UNCHANGED recipes
       ELSE IF ~db_ok
       THEN /\ req' = [req EXCEPT !.pc = "failed", !.raised = "DatabaseError"]
            /\ UNCHANGED recipes
       ELSE /\ recipes' = Append(recipes, RecipeRow(Len(recipes) + 1, req.author))
            /\ req' = [req EXCEPT !.pc = "lines", !.instance = Len(recipes) + 1,
                                  !.k = 1]
    /\ UNCHANGED <<lines, author_null, unique_line>>
    /\ UNCHANGED <<signUpVars, readVars, imageVars, cartVars>>

\* for ingredient_data in ingredients: the k-th iteration's entry.
IngredientAt(ingredients, k) == ingredients[k]

\* RecipeIngredient(recipe=instance, ingredient=..., amount=...)
RecipeIngredientRow(id, instance, ingredient_data) ==
    [id |-> id, recipe |-> instance,
     ingredient |-> ingredient_data.ingredient,
     amount |-> ingredient_data.amount]

Duplicate(row) ==
    \E i \in DOMAIN lines :
        lines[i].recipe = row.recipe /\ lines[i].ingredient = row.ingredient

\* RecipeIngredient(...).save(), one iteration of the loop
SaveRecipeIngredient(db_ok) ==
    /\ req.pc = "lines"
    /\ req.k <= Len(req.validated)
    /\ LET row == RecipeIngredientRow(Len(lines) + 1, req.instance,
                                      IngredientAt(req.validated, req.k))
       IN  IF unique_line /\ Duplicate(row)
           THEN /\ req' = [req EXCEPT !.pc = "failed",
                                      !.raised = "IntegrityError"]
                /\ UNCHANGED lines
           ELSE IF ~db_ok
           THEN /\ req' = [req EXCEPT !.pc = "failed",
                                      !.raised = "DatabaseError"]
                /\ UNCHANGED lines
           ELSE /\ lines' = Append(lines, row)
                /\ req' = [req EXCEPT !.k = req.k + 1]
    /\ UNCHANGED <<recipes, author_null, unique_line>>
    /\ UNCHANGED <<signUpVars, readVars, imageVars, cartVars>>

\* return instance
CreateReturn ==
    /\ req.pc = "lines"
    /\ req.k > Len(req.validated)
    /\ req' = [req EXCEPT !.pc = "created"]
    /\ UNCHANGED <<recipes, lines, author_null, unique_line>>
    /\ UNCHANGED <<signUpVars, readVars, imageVars, cartVars>>

\* instance.recipe_ingredients.all(): the lines of the recipe, in table order.
RecipeIngredients(instance) ==
    LET OfRecipe(row) == row.recipe = instance
    IN  SelectSeq(lines, OfRecipe)

\* RecipeIngredientSerializer: id, name and measurement_unit come from the
\* ingredient row, amount from the line.
RecipeIngredientRepresentation(row) ==
    [id |-> row.ingredient,
     name |-> Ingredient[row.ingredient].name,
     measurement_unit |-> Ingredient[row.ingredient].measurement_unit,
     amount |-> row.amount]

\* RecipeSerializer(instance).data: the serializer is built without a
\* context, so the nested CustomUserSerializer finds no request when it
\* computes is_subscribed for an author that is not None.
ToRepresentation ==
    /\ req.pc = "created"
    /\ LET instance == recipes[req.instance]
           rows == RecipeIngredients(instance.id)
       IN  IF instance.author # NoUser
           THEN req' = [req EXCEPT !.pc = "failed", !.raised = "AttributeError"]
           ELSE req' = [req EXCEPT !.pc = "done",
                          !.response =
                              [id |-> instance.id, author |-> NoUser,
                               ingredients |->
                                   [i \in DOMAIN rows |->
                                       RecipeIngredientRepresentation(rows[i])]]]
    /\ UNCHANGED <<recipes, lines, author_null, unique_line>>
    /\ UNCHANGED <<signUpVars, readVars, imageVars, cartVars>>

(***************************************************************************)
(* Sign-up: CustomUserSignUpSerializer                                     *)
(***************************************************************************)
MaxUsers == 2           \* rows the CustomUser table may hold

\* Text is a sequence of characters.
Usernames == {<<"a">>, <<"b">>}
Passwords ==
    {<<>>, <<"q">>, <<"p", "@", "s", "s">>, <<"pbkdf2_sha256$", "q">>}

NoSignUp ==
    [pc |-> "idle", username |-> <<>>, password |-> <<>>, instance |-> 0,
     response |-> [id |-> 0, username |-> <<>>]]

SignUpPost(username, password) ==
    /\ su.pc \in Finished
    /\ Len(users) < MaxUsers
    /\ su' = [NoSignUp EXCEPT !.pc = "received", !.username = username,
                              !.password = password]
    /\ UNCHANGED <<users, recipeVars, readVars, imageVars, cartVars>>

\* is_valid(): password is a required text field that may not be blank.
SignUpIsValid ==
    /\ su.pc = "received"
    /\ su' = [su EXCEPT !.pc = IF su.password = <<>> THEN "invalid" ELSE "valid"]
    /\ UNCHANGED <<users, recipeVars, readVars, imageVars, cartVars>>

\* The password read without being removed: validated_data.get('password').
KeepPassword(validated_data) == validated_data

\* validated_data after password = validated_data.pop('password')
PopPassword(validated_data) == [username |-> validated_data.username]

\* super().create(validated_data): a field the data does not give takes the
\* column's default, the empty text for password.
UserRow(id, validated_data) ==
    [id |-> id, username |-> validated_data.username,
     password |-> IF "password" \in DOMAIN validated_data
                  THEN validated_data.password ELSE <<>>]

\* password = validated_data.pop('password')
\* instance = super().create(validated_data)
SignUpCreate ==
    /\ su.pc = "valid"
    /\ LET validated_data == [username |-> su.username, password |-> su.password]
       IN  users' = Append(users,
                           UserRow(Len(users) + 1, PopPassword(validated_data)))
    /\ su' = [su EXCEPT !.pc = "created", !.instance = Len(users) + 1]
    /\ UNCHANGED <<recipeVars, readVars, imageVars, cartVars>>

\* set_password(raw) stores make_password(raw): the algorithm's name, a
\* separator and the salted digest, which stands for the raw text it is of.
MakePassword(raw) == <<"pbkdf2_sha256$">> \o raw

\* instance.set_password(password); instance.save(); return instance.
\* The representation leaves out the write-only password.
SignUpSetPassword ==
    /\ su.pc = "created"
    /\ users' = [users EXCEPT ![su.instance].password = MakePassword(su.password)]
    /\ su' = [su EXCEPT !.pc = "done",
                !.response = [id |-> su.instance, username |-> su.username]]
    /\ UNCHANGED <<recipeVars, readVars, imageVars, cartVars>>

(***************************************************************************)
(* Read serializers: CustomUserSerializer, SubscriptionSerializer          *)
(***************************************************************************)
MaxOwned == 4           \* rows of the Recipe table a read may see
MaxLimit == 5           \* largest recipes_limit a view puts in the context

\* A mapping that may hold one key: << >> without it, <<value>> with it.
\* request.query_params holds texts under is_subscribed.
NoParam == << >>
PyFalse == "<False>"
QueryParams == {NoParam, <<"">>, <<"1">>, <<"false">>}

\* self.context holds a number under recipes_limit.
NoLimit == << >>
ContextLimits == {NoLimit} \cup {<<n>> : n \in -1 .. MaxLimit}

NoView ==
    [kind |-> "none", viewer |-> NoUser, target |-> NoUser, param |-> NoParam,
     limit |-> NoLimit, is_subscribed |-> FALSE, recipes |-> <<>>,
     raised |-> ""]

\* query_params.get(key, default)
QueryParamGet(param, default) == IF param = NoParam THEN default ELSE param[1]

\* Python's truth value of what get() returned: False and '' are false.
Truthy(value) == value \notin {PyFalse, ""}

\* user.following.filter(pk=obj.pk).exists()
FollowingExists(user, obj) == <<user, obj>> \in following

\* The method without its guard on the query parameter.
AlwaysLookUp(user, obj, param) == FollowingExists(user, obj)

\* CustomUserSerializer.is_subscribed_user
IsSubscribedUser(user, obj, param) ==
    LET is_subscribed == QueryParamGet(param, PyFalse)
    IN  IF Truthy(is_subscribed) THEN FollowingExists(user, obj) ELSE FALSE

UserRepresentation(viewer, target, param) ==
    /\ view' = [NoView EXCEPT !.kind = "user", !.viewer = viewer,
                              !.target = target, !.param = param,
                              !.is_subscribed =
                                  IsSubscribedUser(viewer, target, param)]
    /\ UNCHANGED <<following, recipeVars, signUpVars, imageVars, cartVars>>

\* instance.recipes.all(): the user's recipes, in the table's order.
RecipesOf(instance) ==
    LET ByAuthor(row) == row.author = instance
    IN  SelectSeq(recipes, ByAuthor)

\* RecipeMinifiedSerializer, of the fields the rows of this model have.
RecipeMinified(row) == [id |-> row.id]

\* int(self.context.get('recipes_limit', 0))
RecipesLimit(limit) == IF limit = NoLimit THEN 0 ELSE limit[1]

\* queryset[:n] for n >= 0: the first n rows, all of them when there are fewer.
Slice(rows, n) == SubSeq(rows, 1, IF n < Len(rows) THEN n ELSE Len(rows))

\* SubscriptionSerializer.to_representation: recipes_limit is an int, never
\* None, so the slice is always taken; a negative bound is refused by the
\* queryset.
SubscriptionRepresentation(instance, limit) ==
    /\ LET recipes_limit == RecipesLimit(limit)
           base == [NoView EXCEPT !.kind = "subscription",
                                  !.target = instance, !.limit = limit]
       IN  IF recipes_limit < 0
           THEN view' = [base EXCEPT !.raised = "AssertionError"]
           ELSE LET recipes_queryset == Slice(RecipesOf(instance), recipes_limit)
                IN  view' = [base EXCEPT !.recipes =
                                [i \in DOMAIN recipes_queryset |->
                                    RecipeMinified(recipes_queryset[i])]]
    /\ UNCHANGED <<following, recipeVars, signUpVars, imageVars, cartVars>>

(***************************************************************************)
(* Image decoder: Base64ImageField                                         *)
(***************************************************************************)
MaxAtoms == 4           \* pieces a submitted text is put together from

\* A submitted text is put together from these pieces and read character by
\* character.
Atoms == {"data:image", "/png", ";base64,", "iVBO", "QQ", "=", "!"}

AtomChars(atom) ==
    CASE atom = "data:image" ->
             <<"d", "a", "t", "a", ":", "i", "m", "a", "g", "e">>
      [] atom = "/png" -> <<"/", "p", "n", "g">>
      [] atom = ";base64," -> <<";", "b", "a", "s", "e", "6", "4", ",">>
      [] atom = "iVBO" -> <<"i", "V", "B", "O">>
      [] atom = "QQ" -> <<"Q", "Q">>
      [] OTHER -> <<atom>>

RECURSIVE Chars(_)
Chars(atoms) ==
    IF atoms = <<>> THEN <<>> ELSE AtomChars(Head(atoms)) \o Chars(Tail(atoms))

\* Of the characters above, those of the base64 alphabet.
B64Alphabet ==
    {"d", "a", "t", "i", "m", "g", "e", "/", "p", "n", "b", "s", "6", "4",
     "V", "B", "O", "Q"}

\* What the field is given: a text, or an uploaded file.  A file's content
\* is written as base64 characters, four to three bytes.
Uploads ==
    {[kind |-> "file", text |-> <<>>, name |-> <<"u", ".", "p", "n", "g">>,
      content |-> c] :
        c \in {<<>>, <<"i", "V", "B", "O">>, <<"Q", "Q", "Q", "Q">>}}

Texts ==
    {[kind |-> "str", text |-> Chars(a), name |-> <<>>, content |-> <<>>] :
        a \in SeqsUpTo(Atoms, MaxAtoms)}

NoImage ==
    [pc |-> "idle", data |-> [kind |-> "none", text |-> <<>>, name |-> <<>>,
                              content |-> <<>>],
     outcome |-> "", code |-> "", name |-> <<>>, content |-> <<>>]

\* str.startswith
StartsWith(s, prefix) ==
    Len(s) >= Len(prefix) /\ SubSeq(s, 1, Len(prefix)) = prefix

\* The first place at or after i where sep occurs in s, 0 when there is none.
RECURSIVE IndexOf(_, _, _)
IndexOf(s, sep, i) ==
    IF i + Len(sep) - 1 > Len(s) THEN 0
    ELSE IF SubSeq(s, i, i + Len(sep) - 1) = sep THEN i
    ELSE IndexOf(s, sep, i + 1)

\* str.split(sep)
RECURSIVE Split(_, _)
Split(s, sep) ==
    LET j == IndexOf(s, sep, 1)
    IN  IF j = 0 THEN <<s>>
        ELSE <<SubSeq(s, 1, j - 1)>> \o Split(SubSeq(s, j + Len(sep), Len(s)), sep)

\* base64.b64decode(s), validate=False: characters outside the alphabet are
\* skipped, padding that completes a group ends the data, and an incomplete
\* last group is an error (binascii.Error).
RECURSIVE B64Scan(_, _, _, _, _)
B64Scan(s, i, quad, pads, out) ==
    IF i > Len(s) THEN [ok |-> quad = 0, content |-> out]
    ELSE IF s[i] = "="
    THEN IF quad >= 2 /\ pads + 1 >= 4 - quad
         THEN [ok |-> TRUE, content |-> out]
         ELSE B64Scan(s, i + 1, quad, IF quad >= 2 THEN pads + 1 ELSE pads, out)
    ELSE IF s[i] \notin B64Alphabet THEN B64Scan(s, i + 1, quad, pads, out)
    ELSE B64Scan(s, i + 1, (quad + 1) % 4, 0, Append(out, s[i]))

B64Decode(s) == B64Scan(s, 1, 0, 0, <<>>)

\* The PNG signature, in base64.
IsImage(content) == StartsWith(content, <<"i", "V", "B", "O">>)

\* super().to_internal_value(data), the ImageField of the framework: a value
\* that is no file, an empty file and a file that is no image are refused
\* with a validation error.
DefaultImageField(data) ==
    IF data.kind # "file"
    THEN [outcome |-> "ValidationError", code |-> "invalid",
          name |-> <<>>, content |-> <<>>]
    ELSE IF data.content = <<>>
    THEN [outcome |-> "ValidationError", code |-> "empty",
          name |-> <<>>, content |-> <<>>]
    ELSE IF ~IsImage(data.content)
    THEN [outcome |-> "ValidationError", code |-> "invalid_image",
          name |-> <<>>, content |-> <<>>]
    ELSE [outcome |-> "file", code |-> "",
          name |-> data.name, content |-> data.content]

Raise(exception) ==
    [outcome |-> exception, code |-> "", name |-> <<>>, content |-> <<>>]

Last(s) == s[Len(s)]

\* Base64ImageField.to_internal_value
Base64ToInternalValue(data) ==
    IF data.kind = "str" /\ StartsWith(data.text, AtomChars("data:image"))
    THEN LET parts == Split(data.text, AtomChars(";base64,"))
         IN  IF Len(parts) # 2
             THEN Raise("ValueError")      \* img_format, img_str = ...
             ELSE LET img_format == parts[1]
                      img_str == parts[2]
                      ext == Last(Split(img_format, <<"/">>))
                      decoded == B64Decode(img_str)
                  IN  IF ~decoded.ok
                      THEN Raise("binascii.Error")
                      ELSE DefaultImageField(
                               [kind |-> "file", text |-> <<>>,
                                name |-> <<"i", "m", "g", ".">> \o ext,
                                content |-> decoded.content])
    ELSE DefaultImageField(data)

ToInternalValue ==
    /\ img.pc = "given"
    /\ LET r == Base64ToInternalValue(img.data)
       IN  img' = [img EXCEPT !.pc = "done", !.outcome = r.outcome,
                              !.code = r.code, !.name = r.name,
                              !.content = r.content]
    /\ UNCHANGED <<recipeVars, signUpVars, readVars, cartVars>>

(***************************************************************************)
(* Migration 0009: the foreign keys of ShoppingCart                        *)
(***************************************************************************)
MaxCartRows == 3        \* rows the ShoppingCart table may hold

RecipeIds == {"r1", "r2"}
Null == "NULL"

\* The user field with on_delete=SET_NULL.
UserOnDeleteSetNull == "SET_NULL"

\* on_delete of ShoppingCart.recipe and of ShoppingCart.user
ShoppingCartRecipeOnDelete == "CASCADE"
ShoppingCartUserOnDelete == "CASCADE"

\* A new ShoppingCart row; the database checks both references on insert.
AddToCart(user, recipe) ==
    /\ user \in cart_users
    /\ recipe \in cart_recipes
    /\ Cardinality(carts) < MaxCartRows
    /\ LET free == (1..MaxCartRows) \ {row.id : row \in carts}
           id == CHOOSE i \in free : \A j \in free : i <= j
       IN  carts' = carts \cup {[id |-> id, user |-> user, recipe |-> recipe]}
    /\ UNCHANGED <<cart_users, cart_recipes>>
    /\ UNCHANGED <<recipeVars, signUpVars, readVars, imageVars>>

\* What deleting the row pk of a referenced table does to the rows whose
\* foreign key field refers to it, by the field's on_delete.
OnDelete(policy, field, pk) ==
    LET referring == {row \in carts : row[field] = pk}
    IN  CASE policy = "CASCADE" ->
                 [deleted |-> TRUE, carts |-> carts \ referring]
          [] policy = "SET_NULL" ->
                 [deleted |-> TRUE,
                  carts |-> (carts \ referring) \cup
                            {[row EXCEPT ![field] = Null] : row \in referring}]
          [] policy = "PROTECT" ->
                 [deleted |-> referring = {}, carts |-> carts]

DeleteUser(user) ==
    /\ user \in cart_users
    /\ LET r == OnDelete(ShoppingCartUserOnDelete, "user", user)
       IN  /\ carts' = r.carts
           /\ cart_users' = IF r.deleted THEN cart_users \ {user} ELSE cart_users
    /\ UNCHANGED cart_recipes
    /\ UNCHANGED <<recipeVars, signUpVars, readVars, imageVars>>

DeleteRecipe(recipe) ==
    /\ recipe \in cart_recipes
    /\ LET r == OnDelete(ShoppingCartRecipeOnDelete, "recipe", recipe)
       IN  /\ carts' = r.carts
           /\ cart_recipes' =
                  IF r.deleted THEN cart_recipes \ {recipe} ELSE cart_recipes
    /\ UNCHANGED cart_users
    /\ UNCHANGED <<recipeVars, signUpVars, readVars, imageVars>>

(***************************************************************************)
(* Specifications                                                          *)
(***************************************************************************)
RecipeIdle ==
    /\ recipes = <<>>
    /\ lines = <<>>
    /\ req = NoRequest
    /\ author_null = TRUE
    /\ unique_line = FALSE

SignUpIdle == users = <<>> /\ su = NoSignUp

ReadIdle == following = {} /\ view = NoView

ImageIdle == img = NoImage

CartIdle == cart_users = {} /\ cart_recipes = {} /\ carts = {}

InitRecipe ==
    /\ recipes = <<>>
    /\ lines = <<>>
    /\ req = NoRequest
    /\ author_null \in BOOLEAN
    /\ unique_line \in BOOLEAN
    /\ SignUpIdle /\ ReadIdle /\ ImageIdle /\ CartIdle

NextRecipe ==
    \/ \E user \in UserIds :
          \E author \in {NoUser, user},
             ingredients \in SeqsUpTo(IngredientEntries, MaxIngredients) :
               Post(user, author, ingredients)
    \/ IsValid
    \/ \E db_ok \in BOOLEAN : CreateRecipe(db_ok)
    \/ \E db_ok \in BOOLEAN : SaveRecipeIngredient(db_ok)
    \/ CreateReturn
    \/ ToRepresentation
    \/ EndRequest

SpecRecipe == InitRecipe /\ [][NextRecipe]_vars

InitSignUp == RecipeIdle /\ SignUpIdle /\ ReadIdle /\ ImageIdle /\ CartIdle

NextSignUp ==
    \/ \E username \in Usernames, password \in Passwords :
          SignUpPost(username, password)
    \/ SignUpIsValid
    \/ SignUpCreate
    \/ SignUpSetPassword

SpecSignUp == InitSignUp /\ [][NextSignUp]_vars

\* The tables a read finds: any Recipe table of up to MaxOwned rows and any
\* following relation between distinct users.
InitRead ==
    /\ \E n \in 0..MaxOwned : \E a \in [1..n -> UserIds] :
          recipes = [i \in 1..n |-> [id |-> i, author |-> a[i]]]
    /\ lines = <<>>
    /\ req = NoRequest
    /\ author_null = TRUE
    /\ unique_line = FALSE
    /\ following \in SUBSET {p \in UserIds \X UserIds : p[1] # p[2]}
    /\ view = NoView
    /\ SignUpIdle /\ ImageIdle /\ CartIdle

NextRead ==
    \/ \E viewer \in UserIds, target \in UserIds, param \in QueryParams :
          UserRepresentation(viewer, target, param)
    \/ \E instance \in UserIds, limit \in ContextLimits :
          SubscriptionRepresentation(instance, limit)

SpecRead == InitRead /\ [][NextRead]_vars

\* The field is given any text of up to MaxAtoms pieces, or an upload.
InitImage ==
    /\ \E data \in Texts \cup Uploads : img = [NoImage EXCEPT !.pc = "given",
                                                             !.data = data]
    /\ RecipeIdle /\ SignUpIdle /\ ReadIdle /\ CartIdle

NextImage == ToInternalValue

SpecImage == InitImage /\ [][NextImage]_vars

InitCart ==
    /\ cart_users = UserIds
    /\ cart_recipes = RecipeIds
    /\ carts = {}
    /\ RecipeIdle /\ SignUpIdle /\ ReadIdle /\ ImageIdle

NextCart ==
    \/ \E user \in UserIds, recipe \in RecipeIds : AddToCart(user, recipe)
    \/ \E user \in UserIds : DeleteUser(user)
    \/ \E recipe \in RecipeIds : DeleteRecipe(recipe)

SpecCart == InitCart /\ [][NextCart]_vars

(***************************************************************************)
(* Properties                                                              *)
(***************************************************************************)
Min(a, b) == IF a < b THEN a ELSE b

CreateFinished == req.pc \in {"created", "done", "failed"}

NothingPersisted == recipes = req.pre_recipes /\ lines = req.pre_lines

AllPersisted ==
    /\ Len(recipes) = Len(req.pre_recipes) + 1
    /\ Len(lines) = Len(req.pre_lines) + Len(req.ingredients)
    /\ \A i \in DOMAIN req.ingredients :
          LET row == lines[Len(req.pre_lines) + i]
          IN  /\ row.recipe = Len(recipes)
              /\ row.ingredient = req.ingredients[i].id
              /\ row.amount = req.ingredients[i].amount

\* C1: when a create request has ended, either the recipe row and every one
\* of its ingredient lines are in the tables, or the tables are as they were
\* before the request.
C1_CreateIsAtomic == CreateFinished => (AllPersisted \/ NothingPersisted)

HasUnknownIngredient ==
    \E i \in DOMAIN req.ingredients :
        req.ingredients[i].id \notin DOMAIN Ingredient

\* C2: a create request with an ingredient id that is in no row of the
\* Ingredient table never gets past validation, and the Recipe and
\* RecipeIngredient tables stay as they were before it, wherever in the
\* list the unknown id is.
C2_UnknownIngredientRejected ==
    HasUnknownIngredient =>
        req.pc \in {"received", "invalid"} /\ NothingPersisted

\* The request was refused for an unknown id that follows a known one.
C2_Witness ==
    /\ req.pc = "invalid"
    /\ Len(req.ingredients) = 2
    /\ req.ingredients[1].id \in DOMAIN Ingredient
    /\ req.ingredients[2].id \notin DOMAIN Ingredient

\* C3: once create has returned, the author of the recipe it made is the
\* user of the request, and is not empty.
C3_AuthorIsRequestUser ==
    req.pc \in {"created", "done"} =>
        /\ recipes[req.instance].author = req.user
        /\ recipes[req.instance].author # NoUser

C5_NeverPlaintext ==
    su.pc \in {"created", "done"} => users[su.instance].password # su.password

\* The row of a second sign-up has been inserted by the base create and its
\* password is not set yet.
C5_Witness ==
    /\ su.pc = "created"
    /\ su.password = <<"p", "@", "s", "s">>
    /\ Len(users) = 2
    /\ users[su.instance].password = <<>>

\* C6: the recipes of a subscription's representation are all of the
\* followee's recipes when recipes_limit is 0 or not set, and the first
\* min(L, k) of them, in their order, when recipes_limit is L > 0.
C6_RecipesLimit ==
    (view.kind = "subscription" /\ view.raised = "") =>
        LET owned == RecipesOf(view.target)
            all == [i \in DOMAIN owned |-> RecipeMinified(owned[i])]
        IN  /\ (view.limit = NoLimit \/ view.limit = <<0>>) =>
                   view.recipes = all
            /\ (view.limit # NoLimit /\ view.limit # <<0>>) =>
                   view.recipes = SubSeq(all, 1, Min(view.limit[1], Len(all)))

StrictB64(s) ==
    /\ Len(s) % 4 = 0
    /\ \A i \in DOMAIN s :
          \/ s[i] \in B64Alphabet
          \/ s[i] = "=" /\ i > Len(s) - 2 /\ \A j \in i..Len(s) : s[j] = "="

Malformed(text) ==
    LET parts == Split(text, AtomChars(";base64,"))
    IN  Len(parts) # 2 \/ ~StrictB64(parts[2])

\* C8: a text that starts with the data-URL image marker and is malformed
\* ends in a validation error of the field; any other value is handled as
\* the default field handles it.
C8_MalformedIsValidationError ==
    img.pc = "done" =>
        IF img.data.kind = "str" /\ StartsWith(img.data.text, AtomChars("data:image"))
        THEN Malformed(img.data.text) => img.outcome = "ValidationError"
        ELSE LET r == DefaultImageField(img.data)
             IN  img.outcome = r.outcome /\ img.code = r.code

CartReferencesExist ==
    \A row \in carts : row.user \in cart_users /\ row.recipe \in cart_recipes

CartDeleteExact ==
    /\ \A user \in cart_users \ cart_users' :
          carts' = {row \in carts : row.user # user}
    /\ \A recipe \in cart_recipes \ cart_recipes' :
          carts' = {row \in carts : row.recipe # recipe}

\* C9: every ShoppingCart row refers to a User row and a Recipe row that
\* exist, and the deletion of a User or a Recipe removes the ShoppingCart
\* rows that refer to it and no other.
C9_CascadeKeepsReferences == []CartReferencesExist /\ [][CartDeleteExact]_vars

\* A user has been deleted and a row of another user is still in the table.
C9_Witness == cart_users # UserIds /\ cart_users # {} /\ carts # {}

\* C10: no recipe has two lines for one ingredient, and every line refers to
\* one Recipe row and one Ingredient row.
C10_OneLinePerIngredient ==
    /\ \A i, j \in DOMAIN lines :
          (lines[i].recipe = lines[j].recipe
              /\ lines[i].ingredient = lines[j].ingredient) => i = j
    /\ \A i \in DOMAIN lines :
          /\ lines[i].recipe \in {recipes[r].id : r \in DOMAIN recipes}
          /\ lines[i].ingredient \in DOMAIN Ingredient

====
